---- MODULE Spec2Model ----
(***************************************************************************)
(* Referral commission and reward ledger of the LMS server.                *)
(*                                                                         *)
(* The state is the Referral collection (db), the HTTP requests in flight  *)
(* (req) and the clock in days (now).  Every handler of the referral       *)
(* controller is cut at its awaits: one action per database round trip, so *)
(* requests interleave the way the Node.js event loop lets them.  A loaded *)
(* document is a private                                                   *)
(* copy (req[r].doc) next to the copy as loaded (req[r].orig); save()      *)
(* writes the paths that differ ($set) and appends the pushed array        *)
(* elements ($push) to the stored document.                                *)
(*                                                                         *)
(* Milestones and rewards are written by no handler: the specifications    *)
(* about them start from accounts that already hold them.                  *)
(*                                                                         *)
(* Two neighbours of the ledger have a specification of their own:        *)
(* Payment.processRefund on one stored payment (payment) and the login     *)
(* lockout of one user (user), whose clock counts minutes.                 *)
(*                                                                         *)
(* Money: course prices are in cents; a commission is price * rate, in     *)
(* hundredths of a cent, so that price * rate / 100 is exact.              *)
(***************************************************************************)
EXTENDS Integers, Sequences, FiniteSets, TLC

\* ------------------------------------------------------------ bounds
MaxAccounts == 2
MaxTx == 2

Reqs == {1, 2}
\* users who create an account and change its settings
Owners == {"u1", "u2"}
\* users who apply a referral code
Applicants == {"u2", "u3"}
\* the codes the generator can draw
Codes == {"AAAA2222", "BBBB3333"}
\* course ids a request can name; "cX" is no course
CourseIds == {"c1", "c2", "cX"}
\* Course collection: price in cents
Price == [c1 |-> 20000, c2 |-> 999]
\* commission rates (percent) a settings update can send
RateInputs == {15}

\* the Referral collection, the requests in flight, the clock (in days; in
\* minutes where logins are counted), the payment and the user a
\* specification about them holds
VARIABLES db, req, now, payment, user
vars == <<db, req, now, payment, user>>

\* ------------------------------------------------------------ documents
DefaultStatistics ==
  [totalReferrals |-> 0, successfulReferrals |-> 0, pendingReferrals |-> 0,
   totalCommissionEarned |-> 0]

DefaultSettings == [commissionRate |-> 10]

\* dollars in hundredths of a cent
Dollars(x) == x * 10000

\* a tier table whose rows ask for either threshold
UpdateTierEither(statistics) ==
  IF statistics.totalCommissionEarned >= Dollars(5000) \/ statistics.successfulReferrals >= 50
    THEN "platinum"
  ELSE IF statistics.totalCommissionEarned >= Dollars(2000) \/ statistics.successfulReferrals >= 25
    THEN "gold"
  ELSE IF statistics.totalCommissionEarned >= Dollars(500) \/ statistics.successfulReferrals >= 10
    THEN "silver"
  ELSE "bronze"

\* ReferralSchema.methods.updateTier: the value it assigns to this.tier
UpdateTier(statistics) ==
  IF statistics.totalCommissionEarned >= Dollars(5000) /\ statistics.successfulReferrals >= 50
    THEN "platinum"
  ELSE IF statistics.totalCommissionEarned >= Dollars(2000) /\ statistics.successfulReferrals >= 25
    THEN "gold"
  ELSE IF statistics.totalCommissionEarned >= Dollars(500) /\ statistics.successfulReferrals >= 10
    THEN "silver"
  ELSE "bronze"

NewReferral(userId, code) ==
  [userId |-> userId, referralCode |-> code, referrals |-> << >>, rewards |-> << >>,
   statistics |-> DefaultStatistics, settings |-> DefaultSettings,
   tier |-> "bronze", milestones |-> << >>]

\* a request slot: the handler's position, its inputs, its locals, its response
Idle ==
  [pc |-> "idle", op |-> "none", user |-> "none", code |-> "none", course |-> "none",
   id |-> 0, txid |-> 0, orig |-> << >>, doc |-> << >>, out |-> "none",
   discountAmount |-> 0, finalPrice |-> 0, rewardId |-> 0, data |-> << >>]

Init ==
  /\ db = << >>
  /\ req = [r \in Reqs |-> Idle]
  /\ now = 0
  /\ payment = << >>
  /\ user = << >>

\* ------------------------------------------------------------ queries
Ids == 1..Len(db)

\* a lookup that falls back to any account when the code matches none
FindByCodeAny(code) ==
  IF {a \in Ids : db[a].referralCode = code} = {} THEN Ids
  ELSE {a \in Ids : db[a].referralCode = code}

\* findOne({ referralCode }): the ids of the accounts holding the code
FindByCode(code) == {a \in Ids : db[a].referralCode = code}

\* findOne({ userId }): the ids of the accounts of the user
FindByUser(userId) == {a \in Ids : db[a].userId = userId}

Min(S) == CHOOSE x \in S : \A y \in S : x <= y

\* a pre-check that looks at live (pending) referrals only
ExistingPendingReferral(userId) ==
  \E a \in Ids : \E i \in 1..Len(db[a].referrals) :
    /\ db[a].referrals[i].referredUserId = userId
    /\ db[a].referrals[i].status = "pending"

\* findOne({ 'referrals.referredUserId': userId }) finds a document
ExistingReferral(userId) ==
  \E a \in Ids : \E i \in 1..Len(db[a].referrals) :
    db[a].referrals[i].referredUserId = userId

\* an own-code check that never matches (an ObjectId compared with a string)
IsOwnCodeNever(doc, userId) == FALSE

\* referral.userId.toString() === req.user.id
IsOwnCode(doc, userId) == doc.userId = userId

RECURSIVE CountTx(_)
CountTx(accounts) ==
  IF accounts = << >> THEN 0
  ELSE Len(Head(accounts).referrals) + CountTx(Tail(accounts))

InFlight(op) ==
  Cardinality({q \in Reqs : req[q].op = op /\ req[q].pc \notin {"idle", "done"}})

\* ------------------------------------------------------------ save()
\* a hook that draws a new code at every save, not only for a new document
PreSaveRegenerate(doc) ==
  [doc EXCEPT !.tier = UpdateTier(doc.statistics),
              !.referralCode = CHOOSE code \in Codes : code # doc.referralCode]

\* pre('save') of an existing document: the tier is recomputed
PreSave(doc) == [doc EXCEPT !.tier = UpdateTier(doc.statistics)]

Pushed(orig, loc) == SubSeq(loc.referrals, Len(orig.referrals) + 1, Len(loc.referrals))

\* the stored document cur after save() of the copy loc that was loaded as orig
SaveDoc(cur, orig, loc0) ==
  LET loc == PreSave(loc0)
      n == Len(orig.referrals)
  IN [cur EXCEPT
        !.referralCode = IF loc.referralCode # orig.referralCode
                           THEN loc.referralCode ELSE cur.referralCode,
        !.referrals =
          [i \in 1..Len(cur.referrals) |->
             IF i <= n /\ loc.referrals[i].status # orig.referrals[i].status
               THEN [cur.referrals[i] EXCEPT !.status = loc.referrals[i].status]
               ELSE cur.referrals[i]] \o Pushed(orig, loc),
        !.statistics =
          [f \in DOMAIN cur.statistics |->
             IF loc.statistics[f] # orig.statistics[f]
               THEN loc.statistics[f] ELSE cur.statistics[f]],
        !.settings =
          [f \in DOMAIN cur.settings |->
             IF loc.settings[f] # orig.settings[f]
               THEN loc.settings[f] ELSE cur.settings[f]],
        !.tier = IF loc.tier # orig.tier THEN loc.tier ELSE cur.tier,
        !.milestones =
          [j \in 1..Len(cur.milestones) |->
             [cur.milestones[j] EXCEPT
                !.achieved = IF loc.milestones[j].achieved # orig.milestones[j].achieved
                               THEN loc.milestones[j].achieved ELSE @,
                !.achievedAt = IF loc.milestones[j].achievedAt # orig.milestones[j].achievedAt
                                 THEN loc.milestones[j].achievedAt ELSE @]],
        !.rewards =
          [k \in 1..Len(cur.rewards) |->
             [cur.rewards[k] EXCEPT
                !.status = IF loc.rewards[k].status # orig.rewards[k].status
                             THEN loc.rewards[k].status ELSE @,
                !.usedAt = IF loc.rewards[k].usedAt # orig.rewards[k].usedAt
                             THEN loc.rewards[k].usedAt ELSE @]]]

\* the response is sent: the slot keeps the outcome until its next request
Done(r, out) == [req[r] EXCEPT !.pc = "done", !.out = out, !.orig = << >>, !.doc = << >>]

Busy(r) == req[r].pc \notin {"idle", "done"}

\* a request arrives: slots fill in order
CanStart(r) == ~Busy(r) /\ \A q \in Reqs : q < r => Busy(q)

\* ------------------------------------------------------------ generateReferralCode
\* POST /api/referrals/generate: findOne({ userId })
GenStart(r, userId) ==
  /\ UNCHANGED <<now, payment, user>>
  /\ CanStart(r)
  /\ LET q == [Idle EXCEPT !.op = "generate", !.user = userId]
     IN req' = [req EXCEPT ![r] =
          IF FindByUser(userId) # {}
            THEN [q EXCEPT !.pc = "done", !.out = "AlreadyExists"]
            ELSE [q EXCEPT !.pc = "gen_code"]]
  /\ UNCHANGED db

\* the same, while the collection has room for the account it may create
GenFind(r, userId) ==
  /\ Len(db) + InFlight("generate") < MaxAccounts
  /\ GenStart(r, userId)

\* Referral.generateReferralCode: one pass of the loop that finds a free code
\* (a pass that draws an assigned code changes nothing and the loop repeats)
GenCode(r) ==
  /\ UNCHANGED <<now, payment, user>>
  /\ req[r].pc = "gen_code"
  /\ \E code \in Codes :
       /\ FindByCode(code) = {}
       /\ req' = [req EXCEPT ![r].pc = "gen_presave", ![r].code = code]
  /\ UNCHANGED db

\* Referral.create -> pre('save') with isNew: the code is generated again
GenPresave(r) ==
  /\ UNCHANGED <<now, payment, user>>
  /\ req[r].pc = "gen_presave"
  /\ \E code \in Codes :
       /\ FindByCode(code) = {}
       /\ req' = [req EXCEPT ![r].pc = "gen_insert", ![r].code = code]
  /\ UNCHANGED db

\* an insert into a collection whose index on referralCode is not unique
GenInsertNoIndex(r) ==
  /\ UNCHANGED <<now, payment, user>>
  /\ req[r].pc = "gen_insert"
  /\ db' = Append(db, NewReferral(req[r].user, req[r].code))
  /\ req' = [req EXCEPT ![r] = Done(r, "ok")]

\* the insert, under the unique index on referralCode
GenInsert(r) ==
  /\ UNCHANGED <<now, payment, user>>
  /\ req[r].pc = "gen_insert"
  /\ IF FindByCode(req[r].code) # {}
       THEN /\ req' = [req EXCEPT ![r] = Done(r, "DuplicateKey")]
            /\ UNCHANGED db
       ELSE /\ db' = Append(db, NewReferral(req[r].user, req[r].code))
            /\ req' = [req EXCEPT ![r] = Done(r, "ok")]

\* ------------------------------------------------------------ applyReferralCode
\* course.price * (commissionRate / 100), in hundredths of a cent
Commission(price, rate) == price * rate

\* a push that records the schema's default rate instead of the account's
NewTransactionDefaultRate(doc, userId, courseId) ==
  [referredUserId |-> userId, courseId |-> courseId, status |-> "pending",
   commission |-> [amount |-> Commission(Price[courseId], doc.settings.commissionRate),
                   percentage |-> DefaultSettings.commissionRate]]

\* a push that records the referral as completed at once
NewTransactionCompleted(doc, userId, courseId) ==
  [referredUserId |-> userId, courseId |-> courseId, status |-> "completed",
   commission |-> [amount |-> Commission(Price[courseId], doc.settings.commissionRate),
                   percentage |-> doc.settings.commissionRate]]

\* the element pushed onto referral.referrals
NewTransaction(doc, userId, courseId) ==
  [referredUserId |-> userId, courseId |-> courseId, status |-> "pending",
   commission |-> [amount |-> Commission(Price[courseId], doc.settings.commissionRate),
                   percentage |-> doc.settings.commissionRate]]

\* POST /api/referrals/apply: findOne({ referralCode }), then the own-code check
ApplyStart(r, userId, code, courseId) ==
  /\ UNCHANGED <<now, payment, user>>
  /\ CanStart(r)
  /\ LET q == [Idle EXCEPT !.op = "apply", !.user = userId, !.code = code,
                           !.course = courseId]
         found == FindByCode(code)
     IN req' = [req EXCEPT ![r] =
          IF found = {}
            THEN [q EXCEPT !.pc = "done", !.out = "CodeNotFound"]
          ELSE IF IsOwnCode(db[Min(found)], userId)
            THEN [q EXCEPT !.pc = "done", !.out = "SelfReferral", !.id = Min(found)]
          ELSE [q EXCEPT !.pc = "apply_check", !.id = Min(found),
                         !.orig = <<db[Min(found)]>>, !.doc = <<db[Min(found)]>>]]
  /\ UNCHANGED db

\* the same, while the ledger has room for the transaction it may push
ApplyFind(r, userId, code, courseId) ==
  /\ CountTx(db) + InFlight("apply") < MaxTx
  /\ ApplyStart(r, userId, code, courseId)

\* findOne({ 'referrals.referredUserId': req.user.id })
ApplyCheck(r) ==
  /\ UNCHANGED <<now, payment, user>>
  /\ req[r].pc = "apply_check"
  /\ req' = [req EXCEPT ![r] =
       IF ExistingReferral(req[r].user)
         THEN Done(r, "AlreadyReferred")
         ELSE [req[r] EXCEPT !.pc = "apply_course"]]
  /\ UNCHANGED db

\* an apply that also counts the new transaction in the statistics
ApplyCourseCounting(r) ==
  /\ UNCHANGED <<now, payment, user>>
  /\ req[r].pc = "apply_course"
  /\ req' = [req EXCEPT ![r] =
       IF req[r].course \notin DOMAIN Price
         THEN Done(r, "CourseNotFound")
         ELSE LET doc == req[r].doc[1]
                  tx == NewTransaction(doc, req[r].user, req[r].course)
              IN [req[r] EXCEPT
                    !.pc = "apply_save",
                    !.doc = <<[doc EXCEPT !.referrals = Append(doc.referrals, tx),
                                          !.statistics.totalReferrals = @ + 1,
                                          !.statistics.pendingReferrals = @ + 1]>>,
                    !.discountAmount = tx.commission.amount,
                    !.finalPrice = Price[req[r].course] * 100 - tx.commission.amount]]
  /\ UNCHANGED db

\* Course.findById, the commission, the push
ApplyCourse(r) ==
  /\ UNCHANGED <<now, payment, user>>
  /\ req[r].pc = "apply_course"
  /\ req' = [req EXCEPT ![r] =
       IF req[r].course \notin DOMAIN Price
         THEN Done(r, "CourseNotFound")
         ELSE LET doc == req[r].doc[1]
                  tx == NewTransaction(doc, req[r].user, req[r].course)
              IN [req[r] EXCEPT
                    !.pc = "apply_save",
                    !.doc = <<[doc EXCEPT !.referrals = Append(doc.referrals, tx)]>>,
                    !.discountAmount = tx.commission.amount,
                    !.finalPrice = Price[req[r].course] * 100 - tx.commission.amount]]
  /\ UNCHANGED db

\* referral.save() and the response
ApplySave(r) ==
  /\ UNCHANGED <<now, payment, user>>
  /\ req[r].pc = "apply_save"
  /\ db' = [db EXCEPT ![req[r].id] = SaveDoc(@, req[r].orig[1], req[r].doc[1])]
  /\ req' = [req EXCEPT ![r] = Done(r, "ok")]

\* ------------------------------------------------------------ processReferralReward
\* a handler without the already-processed check
NotPendingUnchecked(tx) == FALSE

\* referralTransaction.status !== 'pending'
NotPending(tx) == tx.status # "pending"

\* an evaluation that asks for more than the target
CheckMilestonesStrict(doc) ==
  LET checks == [referral_count |-> doc.statistics.successfulReferrals,
                 commission_earned |-> doc.statistics.totalCommissionEarned,
                 successful_conversions |-> doc.statistics.successfulReferrals]
  IN [doc EXCEPT !.milestones =
        [j \in 1..Len(doc.milestones) |->
           IF ~doc.milestones[j].achieved
              /\ checks[doc.milestones[j].type] > doc.milestones[j].target
             THEN [doc.milestones[j] EXCEPT !.achieved = TRUE, !.achievedAt = <<now>>]
             ELSE doc.milestones[j]]]

\* checkMilestones, up to its save()
CheckMilestones(doc) ==
  LET checks == [referral_count |-> doc.statistics.successfulReferrals,
                 commission_earned |-> doc.statistics.totalCommissionEarned,
                 successful_conversions |-> doc.statistics.successfulReferrals]
  IN [doc EXCEPT !.milestones =
        [j \in 1..Len(doc.milestones) |->
           IF ~doc.milestones[j].achieved
              /\ checks[doc.milestones[j].type] >= doc.milestones[j].target
             THEN [doc.milestones[j] EXCEPT !.achieved = TRUE, !.achievedAt = <<now>>]
             ELSE doc.milestones[j]]]

\* a count that credits the commission at the account's rate of today
CountReferralCurrentRate(doc, tx) ==
  [doc EXCEPT !.statistics.successfulReferrals = @ + 1,
              !.statistics.totalCommissionEarned =
                 @ + Commission(Price[tx.courseId], doc.settings.commissionRate)]

\* statistics.successfulReferrals += 1; totalCommissionEarned += commission.amount
CountReferral(doc, tx) ==
  [doc EXCEPT !.statistics.successfulReferrals = @ + 1,
              !.statistics.totalCommissionEarned = @ + tx.commission.amount]

\* POST /api/referrals/process-reward: findById, the checks, the counters,
\* checkMilestones up to its save()
CompleteFind(r, id, txid) ==
  /\ UNCHANGED <<now, payment, user>>
  /\ CanStart(r)
  /\ LET q == [Idle EXCEPT !.op = "complete", !.id = id, !.txid = txid]
     IN req' = [req EXCEPT ![r] =
          IF id \notin Ids \/ txid \notin 1..Len(db[id].referrals)
            THEN [q EXCEPT !.pc = "done", !.out = "NotFound"]
          ELSE IF NotPending(db[id].referrals[txid])
            THEN [q EXCEPT !.pc = "done", !.out = "AlreadyProcessed"]
          ELSE [q EXCEPT !.pc = "complete_save1", !.orig = <<db[id]>>,
                  !.doc = <<CheckMilestones(CountReferral(db[id], db[id].referrals[txid]))>>]]
  /\ UNCHANGED db

\* the save() of checkMilestones; then status = 'completed' on the local copy
CompleteSaveStats(r) ==
  /\ UNCHANGED <<now, payment, user>>
  /\ req[r].pc = "complete_save1"
  /\ LET saved == PreSave(req[r].doc[1])
     IN /\ db' = [db EXCEPT ![req[r].id] = SaveDoc(@, req[r].orig[1], req[r].doc[1])]
        /\ req' = [req EXCEPT ![r] =
             [req[r] EXCEPT !.pc = "complete_save2", !.orig = <<saved>>,
                !.doc = <<[saved EXCEPT !.referrals[req[r].txid].status = "completed"]>>]]

\* referral.save() and the response
CompleteSaveStatus(r) ==
  /\ UNCHANGED <<now, payment, user>>
  /\ req[r].pc = "complete_save2"
  /\ db' = [db EXCEPT ![req[r].id] = SaveDoc(@, req[r].orig[1], req[r].doc[1])]
  /\ req' = [req EXCEPT ![r] = Done(r, "ok")]

\* ------------------------------------------------------------ updateReferralSettings
\* PUT /api/referrals/settings: findOne({ userId }), settings = {...settings, ...req.body}
SettingsFind(r, userId, rate) ==
  /\ UNCHANGED <<now, payment, user>>
  /\ CanStart(r)
  /\ LET q == [Idle EXCEPT !.op = "settings", !.user = userId]
         found == FindByUser(userId)
     IN req' = [req EXCEPT ![r] =
          IF found = {}
            THEN [q EXCEPT !.pc = "done", !.out = "NotFound"]
            ELSE [q EXCEPT !.pc = "settings_save", !.id = Min(found),
                    !.orig = <<db[Min(found)]>>,
                    !.doc = <<[db[Min(found)] EXCEPT !.settings.commissionRate = rate]>>]]
  /\ UNCHANGED db

SettingsSave(r) ==
  /\ UNCHANGED <<now, payment, user>>
  /\ req[r].pc = "settings_save"
  /\ db' = [db EXCEPT ![req[r].id] = SaveDoc(@, req[r].orig[1], req[r].doc[1])]
  /\ req' = [req EXCEPT ![r] = Done(r, "ok")]

\* ------------------------------------------------------------ cancelReferral
\* a cancel that does not look at the status
CancelAnyStatus(r, id, txid) ==
  /\ UNCHANGED <<now, payment, user>>
  /\ CanStart(r)
  /\ LET q == [Idle EXCEPT !.op = "cancel", !.id = id, !.txid = txid, !.pc = "done"]
     IN IF id \notin Ids \/ txid \notin 1..Len(db[id].referrals)
          THEN /\ req' = [req EXCEPT ![r] = [q EXCEPT !.out = "NotFound"]]
               /\ UNCHANGED db
          ELSE /\ req' = [req EXCEPT ![r] = [q EXCEPT !.out = "ok"]]
               /\ db' = [db EXCEPT ![id].referrals[txid].status = "cancelled"]

\* pending -> cancelled, in one step on the account
CancelReferral(r, id, txid) ==
  /\ UNCHANGED <<now, payment, user>>
  /\ CanStart(r)
  /\ LET q == [Idle EXCEPT !.op = "cancel", !.id = id, !.txid = txid, !.pc = "done"]
     IN IF id \notin Ids \/ txid \notin 1..Len(db[id].referrals)
          THEN /\ req' = [req EXCEPT ![r] = [q EXCEPT !.out = "NotFound"]]
               /\ UNCHANGED db
        ELSE IF db[id].referrals[txid].status # "pending"
          THEN /\ req' = [req EXCEPT ![r] = [q EXCEPT !.out = "InvalidTransition"]]
               /\ UNCHANGED db
        ELSE /\ req' = [req EXCEPT ![r] = [q EXCEPT !.out = "ok"]]
             /\ db' = [db EXCEPT ![id].referrals[txid].status = "cancelled"]

\* ------------------------------------------------------------ specifications
\* the steps of the ledger's handlers, for the courses a run names
Handler(r, courses) ==
  \/ \E u \in Owners : GenFind(r, u)
  \/ GenCode(r)
  \/ GenPresave(r)
  \/ GenInsert(r)
  \/ \E u \in Applicants, code \in Codes, c \in courses : ApplyFind(r, u, code, c)
  \/ ApplyCheck(r)
  \/ ApplyCourse(r)
  \/ ApplySave(r)
  \/ \E id \in 1..MaxAccounts, txid \in 1..MaxTx : CompleteFind(r, id, txid)
  \/ CompleteSaveStats(r)
  \/ CompleteSaveStatus(r)

Settings(r) ==
  \/ \E u \in Owners, rate \in RateInputs : SettingsFind(r, u, rate)
  \/ SettingsSave(r)

\* the ledger's requests interleave at their awaits
Next == \E r \in Reqs : Handler(r, DOMAIN Price)
Spec == Init /\ [][Next]_vars

\* one request at a time: each call runs to its response before the next starts
NextSeq ==
  \/ Handler(1, CourseIds)
  \/ Settings(1)
  \/ \E id \in 1..MaxAccounts, txid \in 1..MaxTx : CancelReferral(1, id, txid)
SpecSeq == Init /\ [][NextSeq]_vars

\* ------------------------------------------------------------ grown accounts
MaxNow == 2

\* a day passes
Tick ==
  /\ now < MaxNow
  /\ now' = now + 1
  /\ UNCHANGED <<db, req, payment, user>>

\* the referrals of an account that completed n referrals of course c1 at one rate
CompletedBefore(n, rate) ==
  [i \in 1..n |->
     [referredUserId |-> "s" \o ToString(i), courseId |-> "c1", status |-> "completed",
      commission |-> [amount |-> Commission(Price["c1"], rate), percentage |-> rate]]]

\* the referrals of that account that wait for their first purchase
PendingNow(rate) ==
  [i \in 1..2 |->
     [referredUserId |-> IF i = 1 THEN "u2" ELSE "u3", courseId |-> "c1",
      status |-> "pending",
      commission |-> [amount |-> Commission(Price["c1"], rate), percentage |-> rate]]]

\* <<referrals completed so far, commission rate>> of the accounts a run starts from
GrownSeeds ==
  {<<0, 10>>, <<9, 25>>, <<24, 40>>, <<49, 50>>, <<49, 10>>, <<9, 50>>, <<9, 100>>}

\* milestones: [{ type, target, achieved, achievedAt, reward }], none achieved yet
Milestones ==
  <<[type |-> "referral_count", target |-> 10, achieved |-> FALSE, achievedAt |-> << >>,
     reward |-> [type |-> "discount", value |-> 10]],
    [type |-> "commission_earned", target |-> Dollars(1000), achieved |-> FALSE,
     achievedAt |-> << >>, reward |-> [type |-> "cash_bonus", value |-> 50]],
    [type |-> "successful_conversions", target |-> 50, achieved |-> FALSE,
     achievedAt |-> << >>, reward |-> [type |-> "credits", value |-> 100]]>>

\* the account of u1 after n referrals completed at the rate, two more pending;
\* its milestones were configured before its referrals (evaluated) or just now
Grown(n, rate, evaluated) ==
  LET doc == [NewReferral("u1", "AAAA2222") EXCEPT
                !.referrals = CompletedBefore(n, rate) \o PendingNow(rate),
                !.statistics.successfulReferrals = n,
                !.statistics.totalCommissionEarned = n * Commission(Price["c1"], rate),
                !.settings.commissionRate = rate,
                !.milestones = Milestones]
  IN PreSave(IF evaluated THEN CheckMilestones(doc) ELSE doc)

InitGrown ==
  /\ now = 0
  /\ payment = << >>
  /\ user = << >>
  /\ \E s \in GrownSeeds, evaluated \in BOOLEAN : db = <<Grown(s[1], s[2], evaluated)>>
  /\ req = [r \in Reqs |-> Idle]

\* transaction ids a process-reward request names: an old one, the pending
\* ones, one that does not exist
TxInputs ==
  UNION {{1, Len(db[a].referrals) - 1, Len(db[a].referrals), Len(db[a].referrals) + 1} :
           a \in Ids}

Complete(r) ==
  \/ \E id \in 1..MaxAccounts, txid \in TxInputs : CompleteFind(r, id, txid)
  \/ CompleteSaveStats(r)
  \/ CompleteSaveStatus(r)

\* process-reward requests on a grown account, one at a time
NextGrown == Complete(1) \/ Tick
SpecGrown == InitGrown /\ [][NextGrown]_vars

\* process-reward requests on a grown account, interleaved at their awaits
NextGrownRace == (\E r \in Reqs : Complete(r)) \/ Tick
SpecGrownRace == InitGrown /\ [][NextGrownRace]_vars

\* the two waiting referrals of an account whose referred users chose
\* courses of different prices
PendingMixed(rate) ==
  [i \in 1..2 |->
     [referredUserId |-> IF i = 1 THEN "u2" ELSE "u3",
      courseId |-> IF i = 1 THEN "c1" ELSE "c2", status |-> "pending",
      commission |-> [amount |-> Commission(Price[IF i = 1 THEN "c1" ELSE "c2"], rate),
                      percentage |-> rate]]]

\* a grown account whose two pending referrals are of different courses
InitMixed ==
  /\ now = 0
  /\ payment = << >>
  /\ user = << >>
  /\ \E s \in GrownSeeds, evaluated \in BOOLEAN :
       db = <<[Grown(s[1], s[2], evaluated) EXCEPT
                 !.referrals = CompletedBefore(s[1], s[2]) \o PendingMixed(s[2])]>>
  /\ req = [r \in Reqs |-> Idle]

\* process-reward requests on such an account, interleaved at their awaits
SpecMixedRace == InitMixed /\ [][NextGrownRace]_vars

\* ------------------------------------------------------------ rewards
\* days a discount code stays valid
ValidDays == 30

\* RewardSchema: { type, value, status, expiryDate, usedAt, courseId }
Reward(type, status, expiryDate, usedAt, courseId) ==
  [type |-> type, value |-> 10, status |-> status, expiryDate |-> expiryDate,
   usedAt |-> usedAt, courseId |-> courseId]

\* the rewards an account can hold when a run starts; "points" is a type a
\* writer other than this schema has stored
RewardSeeds ==
  {Reward("discount", "available", << >>, << >>, "none"),
   Reward("discount", "available", <<1>>, << >>, "none"),
   Reward("free_course", "available", << >>, << >>, "c1"),
   Reward("free_course", "available", <<2>>, << >>, "none"),
   Reward("cash_bonus", "available", <<2>>, << >>, "none"),
   Reward("credits", "available", << >>, << >>, "none"),
   Reward("points", "available", << >>, << >>, "none"),
   Reward("discount", "used", << >>, <<0>>, "none"),
   Reward("cash_bonus", "expired", <<0>>, << >>, "none")}

InitRewards ==
  /\ now = 0
  /\ payment = << >>
  /\ user = << >>
  /\ \E x, y \in RewardSeeds :
       db = <<[NewReferral("u1", "AAAA2222") EXCEPT !.rewards = <<x, y>>]>>
  /\ req = [r \in Reqs |-> Idle]

\* reward ids a request names: the account's rewards and one it does not hold
RewardIds == 1..3

\* ReferralSchema.virtual('activeRewards'): the positions of the rewards it keeps
ActiveRewards(doc) ==
  {k \in 1..Len(doc.rewards) :
     /\ doc.rewards[k].status = "available"
     /\ (doc.rewards[k].expiryDate = << >> \/ doc.rewards[k].expiryDate[1] > now)}

\* the positions the filter of getAvailableRewards keeps
AvailableRewards(doc) ==
  {k \in 1..Len(doc.rewards) : doc.rewards[k].status = "available"}

\* GET /api/referrals/rewards
GetAvailableRewards(r, userId) ==
  /\ UNCHANGED <<now, payment, user>>
  /\ CanStart(r)
  /\ LET q == [Idle EXCEPT !.op = "rewards", !.user = userId, !.pc = "done"]
         found == FindByUser(userId)
     IN req' = [req EXCEPT ![r] =
          IF found = {}
            THEN [q EXCEPT !.out = "NotFound"]
            ELSE [q EXCEPT !.out = "ok", !.id = Min(found),
                    !.data = <<AvailableRewards(db[Min(found)])>>]]
  /\ UNCHANGED db

\* a switch that skips the enrollment when it cannot be created
DispatchSkipEnrollment(reward) ==
  CASE reward.type = "discount" -> "discount_code"
    [] OTHER -> "nothing"

\* the switch on reward.type: what the matching case does.  The controller
\* never requires the Enrollment model, so evaluating Enrollment.create throws
Dispatch(reward) ==
  CASE reward.type = "discount" -> "discount_code"
    [] reward.type = "free_course" /\ reward.courseId # "none" -> "throws"
    [] OTHER -> "nothing"

\* a status check that lets every stored reward through
NotAvailableUnchecked(reward) == FALSE

\* reward.status !== 'available'
NotAvailable(reward) == reward.status # "available"

\* POST /api/referrals/rewards/redeem: findOne({ userId }), rewards.id, the
\* status check, the switch, status = 'used' and usedAt on the local copy
RedeemFind(r, userId, rewardId) ==
  /\ UNCHANGED <<now, payment, user>>
  /\ CanStart(r)
  /\ LET q == [Idle EXCEPT !.op = "redeem", !.user = userId, !.rewardId = rewardId]
         found == FindByUser(userId)
     IN req' = [req EXCEPT ![r] =
          IF found = {} \/ rewardId \notin 1..Len(db[Min(found)].rewards)
            THEN [q EXCEPT !.pc = "done", !.out = "NotFound"]
          ELSE LET doc == db[Min(found)]
                   reward == doc.rewards[rewardId]
               IN IF NotAvailable(reward)
                    THEN [q EXCEPT !.pc = "done", !.out = "NotAvailable", !.id = Min(found)]
                  ELSE IF Dispatch(reward) = "throws"
                    THEN [q EXCEPT !.pc = "done", !.out = "ServerError", !.id = Min(found)]
                  ELSE [q EXCEPT
                          !.pc = "redeem_save", !.id = Min(found), !.orig = <<doc>>,
                          !.doc = <<[doc EXCEPT !.rewards[rewardId].status = "used",
                                                !.rewards[rewardId].usedAt = <<now>>]>>,
                          !.data = IF Dispatch(reward) = "discount_code"
                                     THEN <<[validUntil |-> now + ValidDays]>>
                                     ELSE << >>]]
  /\ UNCHANGED db

\* RewardSchema.type: the enum
RewardTypes == {"discount", "free_course", "cash_bonus", "credits"}

\* a schema whose reward type takes any string
ValidatesAny(doc) == TRUE

\* the validation save() runs first: every reward's type is one of the enum
\* (the other validators of the schema are not modelled)
Validates(doc) == \A k \in 1..Len(doc.rewards) : doc.rewards[k].type \in RewardTypes

\* referral.save(), which validates and then writes, and the response
RedeemSave(r) ==
  /\ UNCHANGED <<now, payment, user>>
  /\ req[r].pc = "redeem_save"
  /\ IF Validates(req[r].doc[1])
       THEN /\ db' = [db EXCEPT ![req[r].id] = SaveDoc(@, req[r].orig[1], req[r].doc[1])]
            /\ req' = [req EXCEPT ![r] = Done(r, "ok")]
       ELSE /\ req' = [req EXCEPT ![r] = [Done(r, "ValidationError") EXCEPT !.data = << >>]]
            /\ UNCHANGED db

Redeem(r) ==
  \/ \E u \in Owners, k \in RewardIds : RedeemFind(r, u, k)
  \/ RedeemSave(r)

\* the reward requests on an account that holds rewards, one at a time
NextRewards ==
  \/ Redeem(1)
  \/ \E u \in Owners : GetAvailableRewards(1, u)
  \/ Tick
SpecRewards == InitRewards /\ [][NextRewards]_vars

\* redeem requests interleaved at their awaits
NextRewardsRace == (\E r \in Reqs : Redeem(r)) \/ Tick
SpecRewardsRace == InitRewards /\ [][NextRewardsRace]_vars

\* ------------------------------------------------------------ every handler
\* the account of u1 after some referrals, with the referral of u2 waiting and
\* one reward to redeem; u3 has not used a code yet and u2 has no account
InitCore ==
  /\ now = 0
  /\ payment = << >>
  /\ user = << >>
  /\ \E s \in GrownSeeds :
       db = <<[Grown(s[1], s[2], TRUE) EXCEPT
                 !.referrals = CompletedBefore(s[1], s[2]) \o SubSeq(PendingNow(s[2]), 1, 1),
                 !.rewards = <<Reward("discount", "available", << >>, << >>, "none")>>]>>
  /\ req = [r \in Reqs |-> Idle]

\* every handler of the controller on that ledger, one call at a time
NextCore ==
  \/ \E u \in Owners : GenFind(1, u)
  \/ GenCode(1)
  \/ GenPresave(1)
  \/ GenInsert(1)
  \/ \E u \in Applicants, code \in Codes, c \in DOMAIN Price : ApplyStart(1, u, code, c)
  \/ ApplyCheck(1)
  \/ ApplyCourse(1)
  \/ ApplySave(1)
  \/ Complete(1)
  \/ Settings(1)
  \/ Redeem(1)
SpecCore == InitCore /\ [][NextCore]_vars

\* ------------------------------------------------------------ any rate
\* rates a settings update can send: settings.commissionRate is a Number
\* with a default and neither min nor max
AnyRates == {0 - 10, 0, 100, 150}

\* accounts are created, their owners store a rate, referred users apply
NextRates ==
  \/ \E u \in Owners : GenFind(1, u)
  \/ GenCode(1)
  \/ GenPresave(1)
  \/ GenInsert(1)
  \/ \E u \in Owners, rate \in AnyRates : SettingsFind(1, u, rate)
  \/ SettingsSave(1)
  \/ \E u \in Applicants, code \in Codes, c \in DOMAIN Price : ApplyFind(1, u, code, c)
  \/ ApplyCheck(1)
  \/ ApplyCourse(1)
  \/ ApplySave(1)
SpecRates == Init /\ [][NextRates]_vars

\* ------------------------------------------------------------ a full code space
\* users who ask for a code: one more than there are codes to draw
Askers == Owners \cup Applicants

\* generate requests, one at a time, until every code is assigned and after
NextFull ==
  \/ \E u \in Askers : GenStart(1, u)
  \/ GenCode(1)
  \/ GenPresave(1)
  \/ GenInsert(1)

\* a request that can take its next step takes it: the event loop runs every
\* continuation whose await has resolved
SpecFull == Init /\ [][NextFull]_vars /\ WF_vars(NextFull)

\* ------------------------------------------------------------ updateStatistics
MaxList == 3

\* this.referrals.reduce(...): one transaction after the other into acc
RECURSIVE Reduce(_, _)
Reduce(referrals, acc) ==
  IF referrals = << >> THEN acc
  ELSE LET ref == Head(referrals)
       IN Reduce(Tail(referrals),
            IF ref.status = "completed"
              THEN [acc EXCEPT !.successfulReferrals = @ + 1,
                               !.totalCommissionEarned = @ + ref.commission.amount]
            ELSE IF ref.status = "pending"
              THEN [acc EXCEPT !.pendingReferrals = @ + 1]
            ELSE acc)

\* a recompute that takes the live transactions for all of them
UpdatedStatisticsLive(doc) ==
  LET stats == Reduce(doc.referrals,
                 [successfulReferrals |-> 0, pendingReferrals |-> 0,
                  totalCommissionEarned |-> 0])
  IN [doc.statistics EXCEPT
        !.successfulReferrals = stats.successfulReferrals,
        !.pendingReferrals = stats.pendingReferrals,
        !.totalCommissionEarned = stats.totalCommissionEarned,
        !.totalReferrals = stats.successfulReferrals + stats.pendingReferrals]

\* this.statistics = { ...this.statistics, ...stats, totalReferrals: length }
UpdatedStatistics(doc) ==
  LET stats == Reduce(doc.referrals,
                 [successfulReferrals |-> 0, pendingReferrals |-> 0,
                  totalCommissionEarned |-> 0])
  IN [doc.statistics EXCEPT
        !.successfulReferrals = stats.successfulReferrals,
        !.pendingReferrals = stats.pendingReferrals,
        !.totalCommissionEarned = stats.totalCommissionEarned,
        !.totalReferrals = Len(doc.referrals)]

\* referral.updateStatistics() on a stored account: the recompute and its save()
UpdateStatistics(r, id) ==
  /\ UNCHANGED <<now, payment, user>>
  /\ CanStart(r)
  /\ id \in Ids
  /\ db' = [db EXCEPT ![id] =
       SaveDoc(db[id], db[id], [db[id] EXCEPT !.statistics = UpdatedStatistics(db[id])])]
  /\ req' = [req EXCEPT ![r] =
       [Idle EXCEPT !.op = "statistics", !.id = id, !.pc = "done", !.out = "ok"]]

\* the transactions a list can hold: every status, two commissions
Transactions ==
  {[referredUserId |-> "none", courseId |-> c, status |-> s,
    commission |-> [amount |-> Commission(Price[c], DefaultSettings.commissionRate),
                    percentage |-> DefaultSettings.commissionRate]] :
     c \in DOMAIN Price, s \in {"pending", "completed", "cancelled"}}

\* the lists of up to MaxList transactions, each of another referred user
Lists ==
  UNION {{[i \in 1..n |-> [l[i] EXCEPT !.referredUserId = "s" \o ToString(i)]] :
            l \in [1..n -> Transactions]} : n \in 0..MaxList}

\* one account holding a list; its counters are the ones process-reward keeps
InitLists ==
  /\ now = 0
  /\ payment = << >>
  /\ user = << >>
  /\ \E l \in Lists :
       LET kept == Reduce(l, [successfulReferrals |-> 0, pendingReferrals |-> 0,
                              totalCommissionEarned |-> 0])
       IN db = <<PreSave([NewReferral("u1", "AAAA2222") EXCEPT
                   !.referrals = l,
                   !.statistics.successfulReferrals = kept.successfulReferrals,
                   !.statistics.totalCommissionEarned = kept.totalCommissionEarned])>>
  /\ req = [r \in Reqs |-> Idle]

NextLists == \E id \in 1..MaxAccounts : UpdateStatistics(1, id)
SpecLists == InitLists /\ [][NextLists]_vars

\* ------------------------------------------------------------ Payment.processRefund
\* days during which a payment can be refunded
RefundDays == 30

\* PaymentSchema: { amount, status, createdAt, refunds, totalRefunded }
Payment(amount, status, createdAt) ==
  [amount |-> amount, status |-> status, createdAt |-> createdAt, refunds |-> << >>,
   totalRefunded |-> 0]

\* the payments a run starts from: free and paid, settled or not, made today
\* or about thirty days ago
PaymentSeeds ==
  {Payment(amount, status, createdAt) :
     amount \in {0, 100}, status \in {"completed", "pending", "failed"},
     createdAt \in {0 - 30, 0 - 29, 0 - 28, 0}}

InitPayments ==
  /\ now = 0
  /\ db = << >>
  /\ user = << >>
  /\ payment \in {<<doc>> : doc \in PaymentSeeds}
  /\ req = [r \in Reqs |-> Idle]

\* the amounts a caller can pass: the method checks none of them but the
\* upper limit
RefundAmounts == {0 - 50, 0, 40, 100, 150}

\* PaymentSchema.methods.isRefundable
IsRefundable(doc) ==
  /\ doc.status = "completed"
  /\ doc.createdAt > now - RefundDays
  /\ doc.totalRefunded < doc.amount

\* the document processRefund saves: the refund pushed, the total, the status
Refunded(doc, refundAmount) ==
  LET total == doc.totalRefunded + refundAmount
  IN [doc EXCEPT
        !.refunds = Append(@, [amount |-> refundAmount, processedAt |-> now]),
        !.totalRefunded = total,
        !.status = IF total = doc.amount THEN "refunded" ELSE "partially_refunded"]

\* payment.processRefund(refundAmount, reason): the two throws, then the save
ProcessRefund(r, refundAmount) ==
  /\ UNCHANGED <<db, now, user>>
  /\ CanStart(r)
  /\ payment # << >>
  /\ LET doc == payment[1]
         q == [Idle EXCEPT !.op = "refund", !.pc = "done", !.data = <<refundAmount>>]
     IN IF ~IsRefundable(doc)
          THEN /\ req' = [req EXCEPT ![r] = [q EXCEPT !.out = "NotRefundable"]]
               /\ UNCHANGED payment
        ELSE IF refundAmount > doc.amount - doc.totalRefunded
          THEN /\ req' = [req EXCEPT ![r] = [q EXCEPT !.out = "ExceedsAvailable"]]
               /\ UNCHANGED payment
        ELSE /\ req' = [req EXCEPT ![r] = [q EXCEPT !.out = "ok"]]
             /\ payment' = <<Refunded(doc, refundAmount)>>

\* refund calls on one payment, one at a time, while the days pass
NextPayments ==
  \/ \E refundAmount \in RefundAmounts : ProcessRefund(1, refundAmount)
  \/ Tick
SpecPayments == InitPayments /\ [][NextPayments]_vars

\* ------------------------------------------------------------ login
MaxMinutes == 17

\* minutes an account stays locked
LockMinutes == 15

\* failed attempts that lock an account
LockAfter == 5

\* UserSchema: { email, loginAttempts, lockedUntil, lastLogin, twoFactorEnabled }
User(twoFactorEnabled) ==
  [email |-> "a@lms", loginAttempts |-> 0, lockedUntil |-> << >>, lastLogin |-> << >>,
   twoFactorEnabled |-> twoFactorEnabled]

\* one registered user who has not logged in yet; the clock counts minutes
InitLogin ==
  /\ now = 0
  /\ db = << >>
  /\ payment = << >>
  /\ user \in {<<User(twoFactorEnabled)>> : twoFactorEnabled \in BOOLEAN}
  /\ req = [r \in Reqs |-> Idle]

\* a minute passes
Minute ==
  /\ now < MaxMinutes
  /\ now' = now + 1
  /\ UNCHANGED <<db, req, payment, user>>

\* UserSchema.methods.isAccountLocked
IsAccountLocked(doc) == doc.lockedUntil # << >> /\ doc.lockedUntil[1] > now

\* a count that goes on after a lock has expired
IncrementLoginAttemptsOn(doc) ==
  [doc EXCEPT
     !.loginAttempts = @ + 1,
     !.lockedUntil = IF doc.loginAttempts + 1 >= LockAfter
                       THEN <<now + LockMinutes>> ELSE @]

\* UserSchema.methods.incrementLoginAttempts: the document it saves
IncrementLoginAttempts(doc) ==
  IF doc.lockedUntil # << >> /\ doc.lockedUntil[1] < now
    THEN [doc EXCEPT !.loginAttempts = 1, !.lockedUntil = << >>]
    ELSE [doc EXCEPT
            !.loginAttempts = @ + 1,
            !.lockedUntil = IF doc.loginAttempts + 1 >= LockAfter
                              THEN <<now + LockMinutes>> ELSE @]

\* what a login request can carry
Emails == {"a@lms", "b@lms"}
Passwords == {"right", "wrong", "none"}
TwoFactorCodes == {"none", "valid", "invalid"}

\* POST /api/auth/login: the body, User.findOne({ email }), isAccountLocked
LoginFind(r, email, password, twoFactorCode) ==
  /\ UNCHANGED <<db, now, payment>>
  /\ CanStart(r)
  /\ user # << >>
  /\ LET doc == user[1]
         q == [Idle EXCEPT !.op = "login", !.user = email, !.code = password,
                           !.data = <<twoFactorCode>>]
     IN req' = [req EXCEPT ![r] =
          IF password = "none"
            THEN [q EXCEPT !.pc = "done", !.out = "MissingCredentials"]
          ELSE IF email # doc.email
            THEN [q EXCEPT !.pc = "done", !.out = "InvalidCredentials"]
          ELSE IF IsAccountLocked(doc)
            THEN [q EXCEPT !.pc = "done", !.out = "Locked"]
          ELSE [q EXCEPT !.pc = "login_compare", !.orig = <<doc>>, !.doc = <<doc>>]]
  /\ UNCHANGED user

\* after isValidPassword: incrementLoginAttempts, or the second factor and
\* the reset; each ends with user.save() where it changed the document
LoginCompare(r) ==
  /\ UNCHANGED <<db, now, payment>>
  /\ req[r].pc = "login_compare"
  /\ LET doc == req[r].doc[1]
         twoFactorCode == req[r].data[1]
     IN IF req[r].code # "right"
          THEN /\ req' = [req EXCEPT ![r] = Done(r, "InvalidCredentials")]
               /\ user' = <<IncrementLoginAttempts(doc)>>
        ELSE IF doc.twoFactorEnabled /\ twoFactorCode = "none"
          THEN /\ req' = [req EXCEPT ![r] = Done(r, "RequiresTwoFactor")]
               /\ UNCHANGED user
        ELSE IF doc.twoFactorEnabled /\ twoFactorCode # "valid"
          THEN /\ req' = [req EXCEPT ![r] = Done(r, "InvalidTwoFactorCode")]
               /\ UNCHANGED user
        ELSE /\ req' = [req EXCEPT ![r] = Done(r, "ok")]
             /\ user' = <<[doc EXCEPT !.loginAttempts = 0, !.lastLogin = <<now>>]>>

\* login requests for one user, one at a time, while the minutes pass
NextLogin ==
  \/ \E email \in Emails, password \in Passwords, twoFactorCode \in TwoFactorCodes :
       LoginFind(1, email, password, twoFactorCode)
  \/ LoginCompare(1)
  \/ Minute
SpecLogin == InitLogin /\ [][NextLogin]_vars

\* ------------------------------------------------------------ properties
\* every transaction of the ledger, as <<account, position>>
Txs == UNION {{<<a, i>> : i \in 1..Len(db[a].referrals)} : a \in Ids}

Tx(p) == db[p[1]].referrals[p[2]]

ReferredAnywhere(userId) == \E p \in Txs : Tx(p).referredUserId = userId

CodeOwners(code) == {a \in Ids : db[a].referralCode = code}

\* r takes a step of a call of the handler op
Steps(r, op) == req'[r].op = op /\ req'[r] # req[r]

\* r starts a call of the handler op
Starts(r, op) == Steps(r, op) /\ ~Busy(r)

\* C1: an apply by a user who already appears in a transaction of any account,
\* whatever that transaction's status, appends nothing and fails; it fails with
\* AlreadyReferred once the code is found and is not the caller's own.
C1_AlreadyReferredFails ==
  [][\A r \in Reqs :
       (Steps(r, "apply") /\ ReferredAnywhere(req'[r].user))
         => /\ db' = db
            /\ req'[r].out # "ok"
            /\ req'[r].pc \in {"apply_check", "done"}
            /\ req'[r].pc = "done" =>
                 req'[r].out =
                   IF CodeOwners(req'[r].code) = {} THEN "CodeNotFound"
                   ELSE IF \E a \in CodeOwners(req'[r].code) : db[a].userId = req'[r].user
                     THEN "SelfReferral"
                   ELSE "AlreadyReferred"]_vars

\* C1 witness: AlreadyReferred is answered for a user whose one transaction is
\* cancelled and sits in another account than the one the code names
C1_Witness ==
  \E r \in Reqs : \E p \in Txs :
    /\ req[r].op = "apply" /\ req[r].pc = "done" /\ req[r].out = "AlreadyReferred"
    /\ Tx(p).referredUserId = req[r].user
    /\ Tx(p).status = "cancelled"
    /\ p[1] \notin CodeOwners(req[r].code)

C3_NoSelfReferral ==
  /\ \A p \in Txs : Tx(p).referredUserId # db[p[1]].userId
  /\ \A r \in Reqs :
       (req[r].op = "apply" /\ req[r].id \in Ids /\ db[req[r].id].userId = req[r].user)
         => req[r].pc = "done" /\ req[r].out = "SelfReferral"

\* C3 witness: an owner has applied their own code and was refused
C3_Witness ==
  \E r \in Reqs :
    /\ req[r].op = "apply" /\ req[r].out = "SelfReferral"
    /\ db[req[r].id].userId = req[r].user
    /\ db[req[r].id].referralCode = req[r].code

\* C4: an apply with a code no account owns fails with CodeNotFound and leaves
\* every account as it was
C4_CodeNotFound ==
  [][\A r \in Reqs :
       (Starts(r, "apply") /\ CodeOwners(req'[r].code) = {})
         => req'[r].pc = "done" /\ req'[r].out = "CodeNotFound" /\ db' = db]_vars

\* C4 witness: CodeNotFound is answered while the ledger holds an account with
\* a transaction, under another code
C4_Witness ==
  \E r \in Reqs :
    /\ req[r].op = "apply" /\ req[r].pc = "done" /\ req[r].out = "CodeNotFound"
    /\ CodeOwners(req[r].code) = {}
    /\ Txs # {}

\* the account a code names (codes are unique: the index on referralCode)
AccountOf(code) == CHOOSE a \in Ids : db[a].referralCode = code

Round2(x) == ((x + 50) \div 100) * 100

C7_StatisticsAfterComplete ==
  [][\A r \in Reqs :
       LET a == req[r].id
       IN /\ (req[r].pc = "complete_save1" /\ req'[r].pc = "complete_save2")
               => LET t == db[a].referrals[req[r].txid]
                      s == db[a].statistics
                      s2 == db'[a].statistics
                  IN /\ s2.successfulReferrals = s.successfulReferrals + 1
                     /\ s2.totalCommissionEarned = s.totalCommissionEarned + t.commission.amount
                     /\ s2.pendingReferrals = s.pendingReferrals - 1
          /\ (req[r].pc = "complete_save2" /\ req'[r].pc = "done")
               => db'[a].statistics = db[a].statistics]_vars

\* the statistics count exactly the completed transactions, each once
CountedOnce(a) ==
  LET done == {i \in 1..Len(db[a].referrals) : db[a].referrals[i].status = "completed"}
      RECURSIVE Sum(_)
      Sum(S) == IF S = {} THEN 0
                ELSE LET i == CHOOSE j \in S : TRUE
                     IN db[a].referrals[i].commission.amount + Sum(S \ {i})
  IN /\ db[a].statistics.successfulReferrals = Cardinality(done)
     /\ db[a].statistics.totalCommissionEarned = Sum(done)

\* C8: completeReferral fails with NotFound when the account or the transaction
\* is absent and with AlreadyProcessed when the transaction is not pending, and
\* then changes nothing; so between calls every completed transaction is counted
\* in the statistics exactly once
C8_CompleteErrors ==
  [][/\ \A r \in Reqs :
          Starts(r, "complete") =>
            LET a == req'[r].id
                i == req'[r].txid
            IN IF a \notin Ids \/ i \notin 1..Len(db[a].referrals)
                 THEN req'[r].pc = "done" /\ req'[r].out = "NotFound" /\ db' = db
               ELSE IF db[a].referrals[i].status # "pending"
                 THEN req'[r].pc = "done" /\ req'[r].out = "AlreadyProcessed" /\ db' = db
               ELSE req'[r].pc # "done"
     /\ (\A r \in Reqs : ~Busy(r)) => \A a \in Ids : CountedOnce(a)]_vars

\* C8 witness: AlreadyProcessed is answered for a completed transaction that
\* the statistics count once
C8_Witness ==
  \E r \in Reqs :
    /\ req[r].op = "complete" /\ req[r].pc = "done" /\ req[r].out = "AlreadyProcessed"
    /\ db[req[r].id].referrals[req[r].txid].status = "completed"
    /\ db[req[r].id].statistics.successfulReferrals = 1
    /\ db[req[r].id].statistics.totalCommissionEarned =
         db[req[r].id].referrals[req[r].txid].commission.amount

\* C9: a transaction starts pending; its status changes only pending ->
\* completed, by completeReferral, or pending -> cancelled; a completed or
\* cancelled transaction keeps its status
C9_StatusLifecycle ==
  [][/\ Len(db') >= Len(db)
     /\ \A a \in Ids :
          /\ Len(db'[a].referrals) >= Len(db[a].referrals)
          /\ \A i \in 1..Len(db'[a].referrals) :
               IF i > Len(db[a].referrals)
                 THEN db'[a].referrals[i].status = "pending"
                 ELSE LET old == db[a].referrals[i].status
                          new == db'[a].referrals[i].status
                      IN new # old =>
                           /\ old = "pending"
                           /\ new \in {"completed", "cancelled"}
                           /\ new = "completed" =>
                                \E r \in Reqs : /\ req[r].op = "complete"
                                                /\ req[r].id = a /\ req[r].txid = i
                                                /\ req'[r].pc = "done"
     /\ \A a \in 1..Len(db') : a > Len(db) => db'[a].referrals = << >>]_vars

\* C9 witness: the ledger holds a completed and a cancelled transaction, and a
\* later completeReferral and a later cancel of them were refused
C9_Witness ==
  \E p \in Txs : \E q \in Txs : \E r \in Reqs :
    /\ Tx(p).status = "completed"
    /\ Tx(q).status = "cancelled"
    /\ req[r].op = "complete" /\ req[r].out = "AlreadyProcessed"
    /\ <<req[r].id, req[r].txid>> = q

\* C10: cancelReferral moves a pending transaction to cancelled; on a
\* transaction that is not pending it fails with InvalidTransition and changes
\* nothing; a cancel never changes statistics
C10_Cancel ==
  [][\A r \in Reqs :
       Starts(r, "cancel") =>
         LET a == req'[r].id
             i == req'[r].txid
         IN /\ req'[r].pc = "done"
            /\ Len(db') = Len(db)
            /\ \A b \in Ids : db'[b].statistics = db[b].statistics
            /\ (a \in Ids /\ i \in 1..Len(db[a].referrals)) =>
                 IF db[a].referrals[i].status = "pending"
                   THEN /\ req'[r].out = "ok"
                        /\ db' = [db EXCEPT ![a].referrals[i].status = "cancelled"]
                   ELSE /\ req'[r].out = "InvalidTransition"
                        /\ db' = db]_vars

\* C10 witness: the second cancel of a transaction was refused, in a ledger
\* that also holds a completed transaction
C10_Witness ==
  \E r \in Reqs : \E p \in Txs :
    /\ req[r].op = "cancel" /\ req[r].pc = "done" /\ req[r].out = "InvalidTransition"
    /\ db[req[r].id].referrals[req[r].txid].status = "cancelled"
    /\ Tx(p).status = "completed"

\* the tier table, best row first: <<tier, commission in dollars, referrals>>
TierRows == <<<<"platinum", 5000, 50>>, <<"gold", 2000, 25>>, <<"silver", 500, 10>>>>

Qualifies(row, commission, referrals) ==
  commission >= row[2] * 10000 /\ referrals >= row[3]

\* the first row both of whose thresholds are met, bronze if there is none
TierOf(commission, referrals) ==
  LET met == {i \in 1..Len(TierRows) : Qualifies(TierRows[i], commission, referrals)}
  IN IF met = {} THEN "bronze"
     ELSE TierRows[CHOOSE i \in met : \A j \in met : i <= j][1]

StatisticsOf(dollars, referrals) ==
  [totalReferrals |-> 0, successfulReferrals |-> referrals, pendingReferrals |-> 0,
   totalCommissionEarned |-> dollars * 10000]

\* C11: the tier computed from an account's statistics is the first row of the
\* table platinum (5000, 50), gold (2000, 25), silver (500, 10) both of whose
\* thresholds are met, bronze otherwise; it depends on totalCommissionEarned
\* and successfulReferrals only; tier(5000, 50) = platinum, tier(4999, 50) =
\* gold, tier(0, 0) = bronze
C11_TierFunction ==
  /\ \A a \in Ids :
       LET s == db[a].statistics
       IN /\ UpdateTier(s) = TierOf(s.totalCommissionEarned, s.successfulReferrals)
          /\ UpdateTier([s EXCEPT !.totalReferrals = @ + 1, !.pendingReferrals = @ + 1])
               = UpdateTier(s)
  /\ UpdateTier(StatisticsOf(5000, 50)) = "platinum"
  /\ UpdateTier(StatisticsOf(4999, 50)) = "gold"
  /\ UpdateTier(StatisticsOf(0, 0)) = "bronze"

\* a save has stored platinum for exactly 5000 dollars and 50 referrals
C11_Witness ==
  \E a \in Ids :
    /\ db[a].statistics.successfulReferrals = 50
    /\ db[a].statistics.totalCommissionEarned = 5000 * 10000
    /\ db[a].tier = "platinum"
    /\ req[1].pc = "done" /\ req[1].op = "complete" /\ req[1].out = "ok"

\* how many rewards in the account's store are the reward attached to milestone j
Issued(account, j) ==
  Cardinality({k \in 1..Len(account.rewards) :
                 /\ account.rewards[k].type = account.milestones[j].reward.type
                 /\ account.rewards[k].value = account.milestones[j].reward.value
                 /\ account.rewards[k].status = "available"})

\* C12: the step that turns a milestone achieved adds its reward to the
\* account's rewards, available, once; no other step adds that reward
C12_RewardIssuedOnce ==
  [][\A a \in Ids : \A j \in 1..Len(db[a].milestones) :
       Issued(db'[a], j) = Issued(db[a], j)
         + (IF ~db[a].milestones[j].achieved /\ db'[a].milestones[j].achieved
              THEN 1 ELSE 0)]_vars

\* the statistic a milestone of the type is measured by
Selected(statistics, type) ==
  CASE type = "referral_count" -> statistics.successfulReferrals
    [] type = "commission_earned" -> statistics.totalCommissionEarned
    [] type = "successful_conversions" -> statistics.successfulReferrals

Completed(account) ==
  Cardinality({i \in 1..Len(account.referrals) : account.referrals[i].status = "completed"})

\* C13: when a process-reward call answers ok, the stored statistics count the
\* transaction it completed, every milestone of the account whose statistic
\* is at or over its target is achieved with achievedAt set, and every
\* milestone whose statistic is under its target is unachieved
C13_MilestonesEvaluated ==
  [][\A r \in Reqs :
       Steps(r, "complete") /\ req'[r].pc = "done" /\ req'[r].out = "ok" =>
         LET account == db'[req'[r].id]
         IN /\ account.referrals[req'[r].txid].status = "completed"
            /\ account.statistics.successfulReferrals = Completed(account)
            /\ \A j \in 1..Len(account.milestones) :
                 LET m == account.milestones[j]
                 IN IF Selected(account.statistics, m.type) >= m.target
                      THEN m.achieved /\ m.achievedAt # << >>
                      ELSE ~m.achieved /\ m.achievedAt = << >>]_vars

\* a call has answered ok with one milestone exactly at its target, achieved
\* by this call, and another still under its target
C13_Witness ==
  /\ req[1].pc = "done" /\ req[1].op = "complete" /\ req[1].out = "ok"
  /\ now > 0
  /\ \E j, k \in 1..Len(db[1].milestones) :
       /\ Selected(db[1].statistics, db[1].milestones[j].type) = db[1].milestones[j].target
       /\ db[1].milestones[j].achieved
       /\ db[1].milestones[j].achievedAt = <<now>>
       /\ Selected(db[1].statistics, db[1].milestones[k].type) < db[1].milestones[k].target
       /\ ~db[1].milestones[k].achieved

\* C14: no step resets a milestone's achieved flag, and a step writes
\* achievedAt only when it turns the milestone achieved, so that a stamp once
\* written is never replaced
C14_AchievedOnce ==
  [][\A a \in Ids : \A j \in 1..Len(db[a].milestones) :
       LET old == db[a].milestones[j]
           new == db'[a].milestones[j]
       IN /\ old.achieved => new.achieved
          /\ new.achievedAt # old.achievedAt =>
               ~old.achieved /\ new.achieved /\ old.achievedAt = << >>]_vars

\* the accounts of a user
OwnedBy(userId) == {a \in Ids : db[a].userId = userId}

\* the stored reward a redeem request of the user for the reward id is about
Targets(userId, rewardId) ==
  {<<a, rewardId>> : a \in {b \in OwnedBy(userId) : rewardId \in 1..Len(db[b].rewards)}}

\* C15: a redeem call for a reward that is stored as used answers
\* NotAvailable at once, generates no discount code and changes nothing
\* stored; and no step takes a reward out of the status used
C15_UsedIsTerminal ==
  [][/\ \A r \in Reqs :
          Starts(r, "redeem") =>
            \A t \in Targets(req'[r].user, req'[r].rewardId) :
              db[t[1]].rewards[t[2]].status = "used" =>
                /\ req'[r].pc = "done" /\ req'[r].out = "NotAvailable"
                /\ req'[r].data = << >>
                /\ db' = db
     /\ \A a \in Ids : \A k \in 1..Len(db[a].rewards) :
          db[a].rewards[k].status = "used" => db'[a].rewards[k].status = "used"]_vars

\* a reward redeemed on day 1 has been refused a second redemption on day 2
C15_Witness ==
  /\ now = 2
  /\ req[1].pc = "done" /\ req[1].op = "redeem" /\ req[1].out = "NotAvailable"
  /\ \E t \in Targets(req[1].user, req[1].rewardId) :
       /\ db[t[1]].rewards[t[2]].status = "used"
       /\ db[t[1]].rewards[t[2]].usedAt = <<1>>

\* the reward's expiry date lies before today
Lapsed(reward) == reward.expiryDate # << >> /\ reward.expiryDate[1] < now

\* C16: a redeem call for a reward stored as available whose expiryDate has
\* passed answers NotAvailable, generates no discount code and changes
\* nothing stored; no step moves such a reward to used
C16_ExpiredNotRedeemable ==
  [][/\ \A r \in Reqs :
          Starts(r, "redeem") =>
            \A t \in Targets(req'[r].user, req'[r].rewardId) :
              db[t[1]].rewards[t[2]].status = "available" /\ Lapsed(db[t[1]].rewards[t[2]]) =>
                /\ req'[r].pc = "done" /\ req'[r].out = "NotAvailable"
                /\ req'[r].data = << >>
                /\ db' = db
     /\ \A a \in Ids : \A k \in 1..Len(db[a].rewards) :
          db[a].rewards[k].status = "available" /\ Lapsed(db[a].rewards[k]) =>
            db'[a].rewards[k].status # "used"]_vars

\* the rewards of the account that are available today, by position
Listable(account) ==
  {k \in 1..Len(account.rewards) :
     /\ account.rewards[k].status = "available"
     /\ \/ account.rewards[k].expiryDate = << >>
        \/ account.rewards[k].expiryDate[1] > now}

\* C17: the list a rewards request returns holds exactly the account's
\* rewards with status available and no expiryDate or an expiryDate after now
C17_ListAvailable ==
  [][\A r \in Reqs :
       Steps(r, "rewards") /\ req'[r].out = "ok" =>
         req'[r].data = <<Listable(db[req'[r].id])>>]_vars

\* C18: a redeem call for an available free_course reward with a course, whose
\* enrollment cannot be created, answers with an error and leaves the reward
\* as it was, available and without usedAt
C18_EnrollmentFailure ==
  [][\A r \in Reqs :
       Starts(r, "redeem") =>
         \A t \in Targets(req'[r].user, req'[r].rewardId) :
           LET reward == db[t[1]].rewards[t[2]]
           IN reward.type = "free_course" /\ reward.courseId # "none"
              /\ reward.status = "available" =>
                /\ req'[r].pc = "done" /\ req'[r].out = "ServerError"
                /\ db'[t[1]].rewards[t[2]].status = "available"
                /\ db'[t[1]].rewards[t[2]].usedAt = << >>
                /\ db' = db]_vars

\* a redemption of a free course has failed a second time, a day after the
\* first, and the reward is still available
C18_Witness ==
  /\ now > 0
  /\ req[1].pc = "done" /\ req[1].op = "redeem" /\ req[1].out = "ServerError"
  /\ req[2].pc = "done" /\ req[2].op = "redeem" /\ req[2].out = "ServerError"
  /\ req[2].rewardId = req[1].rewardId
  /\ \E t \in Targets(req[1].user, req[1].rewardId) :
       /\ db[t[1]].rewards[t[2]].type = "free_course"
       /\ db[t[1]].rewards[t[2]].status = "available"
       /\ db[t[1]].rewards[t[2]].usedAt = << >>

\* the types the redemption knows
KnownTypes == {"discount", "free_course", "cash_bonus", "credits"}

C20_CodesUnique ==
  \A a, b \in Ids : a # b => db[a].referralCode # db[b].referralCode

\* two interleaved creations drew the same code: one was refused by the index,
\* and two accounts exist
C20_Witness ==
  /\ Len(db) = 2
  /\ \E r \in Reqs :
       /\ req[r].pc = "done" /\ req[r].op = "generate" /\ req[r].out = "DuplicateKey"
       /\ \E a \in Ids : db[a].referralCode = req[r].code /\ db[a].userId # req[r].user

\* C21: every generate request comes to its response, also when every code
\* the generator can draw is already assigned
C21_GenerateTerminates ==
  \A r \in Reqs : (req[r].op = "generate" /\ Busy(r)) ~> (req[r].pc = "done")

\* the positions of the account's transactions of the status
WithStatus(account, status) ==
  {i \in 1..Len(account.referrals) : account.referrals[i].status = status}

RECURSIVE AmountOver(_, _)
\* the sum of commission.amount over the positions
AmountOver(account, positions) ==
  IF positions = {} THEN 0
  ELSE LET i == CHOOSE x \in positions : TRUE
       IN account.referrals[i].commission.amount + AmountOver(account, positions \ {i})

\* the statistics of the account are the counts and the sum of its transactions
Consistent(account) ==
  /\ account.statistics.totalReferrals = Len(account.referrals)
  /\ account.statistics.successfulReferrals = Cardinality(WithStatus(account, "completed"))
  /\ account.statistics.pendingReferrals = Cardinality(WithStatus(account, "pending"))
  /\ account.statistics.totalCommissionEarned
       = AmountOver(account, WithStatus(account, "completed"))

\* C22: updateStatistics stores totalReferrals = the number of transactions of
\* any status, successfulReferrals = the number of completed ones,
\* pendingReferrals = the number of pending ones, totalCommissionEarned = the
\* sum of commission.amount over the completed ones, and changes no transaction
C22_UpdateStatistics ==
  [][\A r \in Reqs :
       Steps(r, "statistics") =>
         /\ Consistent(db'[req'[r].id])
         /\ db'[req'[r].id].referrals = db[req'[r].id].referrals]_vars

\* a list with a cancelled, a pending and a completed transaction was recomputed
C22_Witness ==
  /\ req[1].pc = "done" /\ req[1].op = "statistics"
  /\ Len(db[1].referrals) = 3
  /\ WithStatus(db[1], "cancelled") # {}
  /\ WithStatus(db[1], "pending") # {}
  /\ WithStatus(db[1], "completed") # {}
  /\ db[1].statistics.totalReferrals = 3
  /\ db[1].statistics.totalCommissionEarned > 0

\* no request is between its first read and its response
Quiet == \A r \in Reqs : ~Busy(r)

C25_CommissionFixed ==
  [][/\ \A p \in Txs : db'[p[1]].referrals[p[2]].commission = Tx(p).commission
     /\ \A r \in Reqs :
          Steps(r, "complete") /\ req[r].pc = "complete_save1" =>
            db'[req[r].id].statistics.totalCommissionEarned
              = db[req[r].id].statistics.totalCommissionEarned
                  + db[req[r].id].referrals[req[r].txid].commission.amount]_vars

\* a transaction created at 10 percent was completed after the rate became
\* 15, and the account earned the 10 percent
C25_Witness ==
  \E p \in Txs :
    /\ Tx(p).status = "completed"
    /\ Tx(p).commission.percentage = 10
    /\ Tx(p).commission.amount = Price[Tx(p).courseId] * 10
    /\ db[p[1]].settings.commissionRate = 15
    /\ db[p[1]].statistics.totalCommissionEarned = Tx(p).commission.amount

C27_OneAccountPerOwner ==
  \A a, b \in Ids : a # b => db[a].userId # db[b].userId

\* C28: when two process-reward calls for two different transactions of one
\* account have both answered ok, both transactions are completed and the
\* stored counters count every completed transaction of the account
C28_NoLostUpdate ==
  /\ req[1].pc = "done" /\ req[1].op = "complete" /\ req[1].out = "ok"
  /\ req[2].pc = "done" /\ req[2].op = "complete" /\ req[2].out = "ok"
  /\ req[1].id = req[2].id /\ req[1].txid # req[2].txid
  => LET account == db[req[1].id]
     IN /\ account.referrals[req[1].txid].status = "completed"
        /\ account.referrals[req[2].txid].status = "completed"
        /\ account.statistics.successfulReferrals
             = Cardinality(WithStatus(account, "completed"))
        /\ account.statistics.totalCommissionEarned
             = AmountOver(account, WithStatus(account, "completed"))

\* C29: two redeem calls for the same reward never both answer ok
C29_RedeemedOnce ==
  \A r1, r2 \in Reqs :
    /\ r1 # r2
    /\ req[r1].pc = "done" /\ req[r1].op = "redeem"
    /\ req[r2].pc = "done" /\ req[r2].op = "redeem"
    /\ req[r1].user = req[r2].user /\ req[r1].rewardId = req[r2].rewardId
    => ~(req[r1].out = "ok" /\ req[r2].out = "ok")

\* C30: in no stored state does an account count more successful referrals
\* than it has completed transactions
C30_CompleteAtomic ==
  \A a \in Ids :
    db[a].statistics.successfulReferrals <= Cardinality(WithStatus(db[a], "completed"))

\* C31: the stored tier of every account is the tier of the table for its
\* stored totalCommissionEarned and successfulReferrals
C31_TierNeverStale ==
  \A a \in Ids :
    db[a].tier = TierOf(db[a].statistics.totalCommissionEarned,
                        db[a].statistics.successfulReferrals)

Rank(tier) == CHOOSE i \in 1..4 : <<"bronze", "silver", "gold", "platinum">>[i] = tier

\* C32: no step of any handler lowers the tier of an account: bronze <=
\* silver <= gold <= platinum, and the stored tier only moves up that order
C32_TierOnlyAdvances ==
  [][\A a \in Ids : Rank(db'[a].tier) >= Rank(db[a].tier)]_vars

\* C33: within one process-reward call the milestones are evaluated only
\* after the transaction is marked completed and the tier is recomputed: a
\* call's copy of the account that holds a milestone this call has achieved
\* holds the call's transaction as completed and the tier of its statistics
C33_PipelineOrder ==
  \A r \in Reqs :
    (req[r].op = "complete" /\ Busy(r))
      => LET doc == req[r].doc[1]
             orig == req[r].orig[1]
         IN (\E j \in 1..Len(doc.milestones) :
               doc.milestones[j].achieved /\ ~orig.milestones[j].achieved)
              => /\ doc.referrals[req[r].txid].status = "completed"
                 /\ doc.tier = TierOf(doc.statistics.totalCommissionEarned,
                                      doc.statistics.successfulReferrals)

\* C34: no step of any handler changes the referral code of an account that
\* exists
C34_CodeImmutable ==
  [][\A a \in Ids : db'[a].referralCode = db[a].referralCode]_vars

\* C34 witness: an account has been saved by a settings update, a redeem, an
\* apply and a process-reward call
C34_Witness ==
  \E a \in Ids :
    /\ db[a].settings.commissionRate \in RateInputs
    /\ \E k \in 1..Len(db[a].rewards) : db[a].rewards[k].status = "used"
    /\ \E i \in 1..Len(db[a].referrals) :
         db[a].referrals[i].referredUserId = "u3" /\ db[a].referrals[i].status = "completed"

C36_FreeCourseGranted ==
  \A a \in Ids : \A k \in 1..Len(db[a].rewards) :
    (db[a].rewards[k].type = "free_course" /\ db[a].rewards[k].status = "used")
      => db[a].rewards[k].courseId # "none"

RECURSIVE SumOfRefunds(_)
SumOfRefunds(refunds) ==
  IF refunds = << >> THEN 0 ELSE Head(refunds).amount + SumOfRefunds(Tail(refunds))

Compared == req[1].pc = "login_compare" /\ req'[1].pc = "done"

WrongPassword == Compared /\ req[1].code = "wrong"

====
